---------------------------- MODULE Spec2Model ----------------------------
(***************************************************************************)
(* Order reconciliation and bundling engine (logistics_engine.py,          *)
(* data_cleaner.py).                                                       *)
(*                                                                         *)
(* Text is a sequence of characters; a character is a one-token string.    *)
(* Hangul syllables are written by their romanisation, one token each      *)
(* ("sang","pum","ju","mun","beon","ho" is the header sentinel), and the   *)
(* non-ASCII code points the cleaners treat specially have a token each:   *)
(*   "TAB"   U+0009  control character, Unicode whitespace                 *)
(*   "LF"    U+000A  control character, Unicode whitespace                 *)
(*   "NBSP"  U+00A0  Unicode whitespace, not a control character           *)
(*   "EMOJI" U+1F60A in the emoji range                                    *)
(*   "ZWSP"  U+200B  zero-width, in the removed range                      *)
(*   "VS16"  U+FE0F  variation selector, in the removed range              *)
(*   "SUP2"  U+00B2  superscript two: str.isdigit() is true, int() raises  *)
(***************************************************************************)
EXTENDS Integers, Sequences, FiniteSets, TLC

VARIABLES
    pc,          \* which operation has run: "start" or "done"
    op,          \* the operation under check: "build" or "match"
    smart_file,  \* the order workbook (file object contents): sheets, active
    cj_df,       \* the carrier table handed to match_and_fill_waybill
    df_smart,    \* the order table handed to build_cj_upload_df
    build_out,   \* what build_cj_upload_df returned
    match_out,   \* what match_and_fill_waybill returned
    arg,         \* the argument of a helper called on its own
    ret          \* what find_header_row, read_naver_excel, map_cj_columns
                 \* or clean_phone returned

vars == <<pc, op, smart_file, cj_df, df_smart, build_out, match_out, arg, ret>>

-----------------------------------------------------------------------------
(* Bounds of the model *)

\* most data rows below the header of an order worksheet
MaxRows == 2
\* most banner rows above the header of an order worksheet
MaxBanner == 1
\* most records of a carrier table
MaxCj == 2
\* most rows of an order table handed to build_cj_upload_df
MaxOrders == 3

-----------------------------------------------------------------------------
(* Characters and Python's str methods *)

EMPTY == <<>>

AsciiDigits == <<"0", "1", "2", "3", "4", "5", "6", "7", "8", "9">>

AsciiDigitSet == {AsciiDigits[i] : i \in 1..10}

\* str.isspace(): what str.strip() removes
Whitespace == {" ", "TAB", "LF", "NBSP"}

\* [\x00-\x1f\x7f]
ControlChars == {"TAB", "LF"}

\* the ranges of _EMOJI_RE
EmojiChars == {"EMOJI", "ZWSP", "VS16"}

\* characters for which str.isdigit() is true
IsDigitChars == AsciiDigitSet \cup {"SUP2"}

Min(S) == CHOOSE x \in S : \A y \in S : x <= y

Max(S) == CHOOSE x \in S : \A y \in S : x >= y

\* str.strip()
Strip(s) ==
    LET idx == {i \in 1..Len(s) : s[i] \notin Whitespace}
    IN  IF idx = {} THEN EMPTY ELSE SubSeq(s, Min(idx), Max(idx))

\* str.isdigit(): non-empty and every character a digit character
IsDigit(s) == Len(s) > 0 /\ \A i \in 1..Len(s) : s[i] \in IsDigitChars

DigitVal(c) == (CHOOSE i \in 1..10 : AsciiDigits[i] = c) - 1

\* int(s) of a string that passed isdigit(): raises on a non-decimal digit
IntRaises(s) == \E i \in 1..Len(s) : s[i] \notin AsciiDigitSet

RECURSIVE IntOf(_)
IntOf(s) ==
    IF s = EMPTY THEN 0
    ELSE 10 * IntOf(SubSeq(s, 1, Len(s) - 1)) + DigitVal(s[Len(s)])

\* str(n) of a non-negative int
RECURSIVE StrOfInt(_)
StrOfInt(n) ==
    IF n < 10 THEN <<AsciiDigits[n + 1]>>
    ELSE StrOfInt(n \div 10) \o <<AsciiDigits[(n % 10) + 1]>>

RECURSIVE SumSeq(_)
SumSeq(s) == IF s = EMPTY THEN 0 ELSE Head(s) + SumSeq(Tail(s))

\* <<1, ..., n>>
Indices(n) == [i \in 1..n |-> i]

\* sub in s
Contains(sub, s) ==
    \E i \in 0..(Len(s) - Len(sub)) : SubSeq(s, i + 1, i + Len(sub)) = sub

UpperCase == <<"A", "B", "C", "D", "E", "F", "G", "H", "I", "J", "K", "L", "M",
               "N", "O", "P", "Q", "R", "S", "T", "U", "V", "W", "X", "Y", "Z">>

LowerCase == <<"a", "b", "c", "d", "e", "f", "g", "h", "i", "j", "k", "l", "m",
               "n", "o", "p", "q", "r", "s", "t", "u", "v", "w", "x", "y", "z">>

LowerChar(c) ==
    IF \E i \in 1..26 : UpperCase[i] = c
    THEN LowerCase[CHOOSE i \in 1..26 : UpperCase[i] = c]
    ELSE c

\* str.lower()
Lower(s) == [i \in 1..Len(s) |-> LowerChar(s[i])]

-----------------------------------------------------------------------------
(* data_cleaner.py *)

ADDRESS_MAX_LEN == 100

NotEmoji(c) == c \notin EmojiChars

\* _EMOJI_RE.sub("", text)
RemoveEmoji(text) == SelectSeq(text, NotEmoji)

\* re.sub(r"[\x00-\x1f\x7f]", " ", text)
ControlToSpace(text) ==
    [i \in 1..Len(text) |-> IF text[i] \in ControlChars THEN " " ELSE text[i]]

\* re.sub(r" {2,}", " ", text): of every run of spaces one space stays, so
\* the characters kept are those that are not a space right after a space
CollapseSpaces(text) ==
    LET Kept(i) == ~(i > 1 /\ text[i] = " " /\ text[i - 1] = " ")
        kept    == SelectSeq(Indices(Len(text)), Kept)
    IN  [k \in 1..Len(kept) |-> text[kept[k]]]

\* clean_text whose first substitution puts a space where the emoji was
clean_textEmojiToSpace(text) ==
    LET EmojiToSpace(t) ==
            [i \in 1..Len(t) |-> IF t[i] \in EmojiChars THEN " " ELSE t[i]]
    IN  Strip(CollapseSpaces(ControlToSpace(EmojiToSpace(text))))

clean_text(text) == Strip(CollapseSpaces(ControlToSpace(RemoveEmoji(text))))

IsAsciiDigit(c) == c \in AsciiDigitSet

\* clean_phone written with \D: keeps every character str.isdigit() accepts
clean_phoneUnicodeDigits(phone) ==
    LET IsUnicodeDigit(c) == c \in IsDigitChars
    IN  SelectSeq(phone, IsUnicodeDigit)

clean_phone(phone) == SelectSeq(phone, IsAsciiDigit)

truncate_address(address, max_len) ==
    IF Len(address) > max_len THEN SubSeq(address, 1, max_len) ELSE address


-----------------------------------------------------------------------------
(* logistics_engine.py: constants *)

\* column positions of the order export (0-based, relative to the header row)
NAVER == [order_no |-> 0, carrier |-> 7, waybill |-> 8, name |-> 13,
          product |-> 20, qty |-> 26, phone |-> 48, addr |-> 50,
          postal |-> 54, note |-> 55]

\* max(NAVER.values())
RequiredMaxIdx == Max({NAVER[k] : k \in DOMAIN NAVER})

\* the header sentinel (sang-pum-ju-mun-beon-ho, "product order number")
SENTINEL == <<"sang", "pum", "ju", "mun", "beon", "ho">>

\* the carrier-name literal (CJ dae-han-tong-un)
CJ_NAME == <<"C", "J", "dae", "han", "tong", "un">>

\* the unissued literal (mi-bal-geup)
UNISSUED == <<"mi", "bal", "geup">>

_CJ_ORDER_KEYWORDS == <<
    <<"go", "gaek", "ju", "mun", "beon", "ho">>,
    <<"ju", "mun", "beon", "ho">>,
    <<"go", "gaek", "ju", "mun">>,
    <<"ju", "mun">>,
    <<"o", "r", "d", "e", "r", " ", "n", "u", "m", "b", "e", "r">>,
    <<"o", "r", "d", "e", "r", " ", "n", "o">>,
    <<"o", "r", "d", "e", "r", "n", "o">>,
    <<"o", "r", "d", "e", "r">> >>

_CJ_WAYBILL_KEYWORDS == <<
    <<"un", "song", "jang", "beon", "ho">>,
    <<"song", "jang", "beon", "ho">>,
    <<"un", "song", "jang">>,
    <<"i", "n", "v", "o", "i", "c", "e">>,
    <<"song", "jang">>,
    <<"un", "song">>,
    <<"w", "a", "y", "b", "i", "l", "l">>,
    <<"t", "r", "a", "c", "k", "i", "n", "g", " ", "n", "u", "m", "b", "e", "r">>,
    <<"t", "r", "a", "c", "k", "i", "n", "g", " ", "n", "o">>,
    <<"t", "r", "a", "c", "k", "i", "n", "g">> >>

-----------------------------------------------------------------------------
(* logistics_engine.py: the exceptions raised *)

\* find_header_row: no row holds the sentinel; the message asks to check
\* that the file is the original export of the store
HeaderError ==
    [type |-> "ValueError", what |-> "sentinel not found",
     hint |-> "check that the file is the original export"]

\* find_column: no column for the field; the message lists the keywords
\* tried and the actual columns
ColumnError(field_name, keywords, cols) ==
    [type |-> "ValueError", what |-> "column not found", field |-> field_name,
     keywords |-> keywords, columns |-> cols]

\* build_cj_upload_df: the table is too narrow; the message gives the
\* expected and the actual number of columns
ColumnCountError(expected, actual) ==
    [type |-> "ValueError", what |-> "column count",
     expected |-> expected, actual |-> actual]

\* DataFrame.iloc or a tuple of cells indexed past its end
PositionError == [type |-> "IndexError", what |-> "index out of range"]

-----------------------------------------------------------------------------
(* logistics_engine.py: column resolution *)

\* find_column in one pass: a keyword is hit by any column that contains it
find_columnSubstringFirst(cols, keywords) ==
    LET Part(k, c)  == Contains(Lower(keywords[k]), Lower(Strip(cols[c])))
        nk == Len(keywords)
        nc == Len(cols)
        part  == {k \in 1..nk : \E c \in 1..nc : Part(k, c)}
    IN  IF part # {} THEN Min({c \in 1..nc : Part(Min(part), c)})
        ELSE 0

\* find_column whose substring phase compares without lower()
find_columnCaseSensitive(cols, keywords) ==
    LET Exact(k, c) == Strip(cols[c]) = keywords[k]
        Part(k, c)  == Contains(keywords[k], Strip(cols[c]))
        nk == Len(keywords)
        nc == Len(cols)
        exact == {k \in 1..nk : \E c \in 1..nc : Exact(k, c)}
        part  == {k \in 1..nk : \E c \in 1..nc : Part(k, c)}
    IN  IF exact # {} THEN Min({c \in 1..nc : Exact(Min(exact), c)})
        ELSE IF part # {} THEN Min({c \in 1..nc : Part(Min(part), c)})
        ELSE 0

\* find_column over the column names `cols`: the index of the column found,
\* 0 when the ValueError is raised; the first keyword that has a hit decides,
\* and the first column that hits it is returned
find_column(cols, keywords) ==
    LET Exact(k, c) == Strip(cols[c]) = keywords[k]
        Part(k, c)  == Contains(Lower(keywords[k]), Lower(Strip(cols[c])))
        nk == Len(keywords)
        nc == Len(cols)
        exact == {k \in 1..nk : \E c \in 1..nc : Exact(k, c)}
        part  == {k \in 1..nk : \E c \in 1..nc : Part(k, c)}
    IN  IF exact # {} THEN Min({c \in 1..nc : Exact(Min(exact), c)})
        ELSE IF part # {} THEN Min({c \in 1..nc : Part(Min(part), c)})
        ELSE 0

\* map_cj_columns: ok is FALSE when either find_column raises; the order
\* role is resolved first, so its error is the one raised when both fail
map_cj_columns(cols) ==
    LET o == find_column(cols, _CJ_ORDER_KEYWORDS)
        w == find_column(cols, _CJ_WAYBILL_KEYWORDS)
    IN  [ok |-> o # 0 /\ w # 0, order |-> o, waybill |-> w,
         error |-> IF o = 0
                   THEN ColumnError("order", _CJ_ORDER_KEYWORDS, cols)
                   ELSE ColumnError("waybill", _CJ_WAYBILL_KEYWORDS, cols)]

-----------------------------------------------------------------------------
(* logistics_engine.py: header location and reading *)

\* strings pandas reads as missing values (a subset of its default list);
\* fillna("") then turns them into the empty string
NaStrings == {EMPTY, <<"N", "A">>, <<"n", "a", "n">>}

\* a cell as pd.read_excel(dtype=str).fillna("") delivers it
ReadCell(c) == IF c \in NaStrings THEN EMPTY ELSE c

\* the worksheet pandas reads: the first one
FirstSheet(wb) == wb.sheets[1]

\* HeaderRows that accepts a cell containing the sentinel
HeaderRowsContains(sheet) ==
    {i \in 0..(Len(sheet.rows) - 1) :
        \E c \in DOMAIN sheet.rows[i + 1] :
            Contains(SENTINEL, Strip(sheet.rows[i + 1][c]))}

\* the rows of a grid (0-based) holding a cell that is exactly the sentinel
HeaderRows(sheet) ==
    {i \in 0..(Len(sheet.rows) - 1) :
        \E c \in DOMAIN sheet.rows[i + 1] : Strip(sheet.rows[i + 1][c]) = SENTINEL}

\* find_header_row that falls back to the first row when none matches
find_header_rowOrFirst(wb) ==
    LET hs == HeaderRows(FirstSheet(wb))
    IN  IF hs = {} THEN 0 ELSE Min(hs)

\* find_header_row: -1 stands for the ValueError
find_header_row(wb) ==
    LET hs == HeaderRows(FirstSheet(wb))
    IN  IF hs = {} THEN -1 ELSE Min(hs)

KeepRow(row) ==
    /\ Strip(row[NAVER.order_no]) # EMPTY
    /\ Strip(row[NAVER.order_no]) # SENTINEL

\* read_naver_excel: the table below the header, bad rows dropped
read_naver_excel(wb) ==
    LET h     == find_header_row(wb)
        sheet == FirstSheet(wb)
        below == SubSeq(sheet.rows, h + 2, Len(sheet.rows))
        cells == [i \in 1..Len(below) |->
                    [c \in DOMAIN below[i] |-> ReadCell(below[i][c])]]
    IN  IF h < 0 THEN [status |-> "ValueError", ncols |-> 0, rows |-> <<>>,
                       error |-> HeaderError]
        ELSE [status |-> "ok", ncols |-> sheet.ncols,
              rows |-> SelectSeq(cells, KeepRow)]

-----------------------------------------------------------------------------
(* logistics_engine.py: build_cj_upload_df *)

HasOrderNo(x) == x.order_no # EMPTY

\* BuildClean without the filter on the order-id
BuildCleanKeepsAll(df) ==
    LET rec(r) ==
            [order_no |-> Strip(r[NAVER.order_no]),
             name     |-> clean_text(r[NAVER.name]),
             phone    |-> clean_phone(r[NAVER.phone]),
             postal   |-> Strip(r[NAVER.postal]),
             addr     |-> truncate_address(clean_text(r[NAVER.addr]),
                                           ADDRESS_MAX_LEN),
             product  |-> Strip(r[NAVER.product]),
             qty      |-> Strip(r[NAVER.qty]),
             note     |-> clean_text(r[NAVER.note])]
    IN  [i \in 1..Len(df.rows) |-> rec(df.rows[i])]

\* the extracted and cleaned columns, rows without an order-id dropped
BuildClean(df) ==
    LET rec(r) ==
            [order_no |-> Strip(r[NAVER.order_no]),
             name     |-> clean_text(r[NAVER.name]),
             phone    |-> clean_phone(r[NAVER.phone]),
             postal   |-> Strip(r[NAVER.postal]),
             addr     |-> truncate_address(clean_text(r[NAVER.addr]),
                                           ADDRESS_MAX_LEN),
             product  |-> Strip(r[NAVER.product]),
             qty      |-> Strip(r[NAVER.qty]),
             note     |-> clean_text(r[NAVER.note])]
    IN  SelectSeq([i \in 1..Len(df.rows) |-> rec(df.rows[i])], HasOrderNo)

\* BuildKey without the address
BuildKeyNoAddr(x) == <<x.name, x.phone, <<>> >>

\* the groupby key of build_cj_upload_df
BuildKey(x) == <<x.name, x.phone, x.addr>>

\* GroupLeaders that takes the last row of every group for its first
GroupLeadersLast(keys) ==
    LET IsLast(i) == \A j \in (i + 1)..Len(keys) : keys[j] # keys[i]
    IN  SelectSeq(Indices(Len(keys)), IsLast)

\* groupby(sort=False): the first row of every group, groups in the order
\* their key is first seen
GroupLeaders(keys) ==
    LET IsFirst(i) == \A j \in 1..(i - 1) : keys[j] # keys[i]
    IN  SelectSeq(Indices(Len(keys)), IsFirst)

\* groupby(sort=False): the rows of the group of row i, in original order
GroupMembers(keys, i) ==
    LET Same(j) == keys[j] = keys[i]
    IN  SelectSeq(Indices(Len(keys)), Same)

\* ProductSummary that counts the first product among the others
ProductSummaryCountsAll(products) ==
    IF Len(products) = 1 THEN products[1]
    ELSE products[1] \o <<" ", "oe", " ">> \o StrOfInt(Len(products))
         \o <<"geon">>

\* the f-string joining the first product and the count of the others
\* (" oe <n-1>geon": "and n-1 more")
ProductSummary(products) ==
    IF Len(products) = 1 THEN products[1]
    ELSE products[1] \o <<" ", "oe", " ">> \o StrOfInt(Len(products) - 1)
         \o <<"geon">>

IsDigitStripped(q) == IsDigit(Strip(q))

\* the quantity of a group: str() of the sum of the all-digit quantities; the
\* first quantity when there is none, or when int() raised inside the try
TotalQty(qtys) ==
    LET digit == SelectSeq(qtys, IsDigitStripped)
    IN  IF \E i \in 1..Len(digit) : IntRaises(digit[i]) THEN qtys[1]
        ELSE IF digit = <<>> THEN qtys[1]
        ELSE StrOfInt(SumSeq([i \in 1..Len(digit) |-> IntOf(digit[i])]))

\* one output row per group; `members` is the loop's `group` (row positions
\* in the cleaned table)
BuildRow(clean, keys, i) ==
    LET m     == GroupMembers(keys, i)
        first == clean[m[1]]
    IN  [order_no |-> first.order_no,
         name     |-> keys[i][1],
         phone    |-> keys[i][2],
         postal   |-> first.postal,
         addr     |-> keys[i][3],
         product  |-> ProductSummary([k \in 1..Len(m) |-> clean[m[k]].product]),
         qty      |-> TotalQty([k \in 1..Len(m) |-> clean[m[k]].qty]),
         note     |-> first.note,
         members  |-> m]

\* the keys of the dict appended per group, in order: customer order-id,
\* recipient name, phone, postal code, address, product name, quantity,
\* delivery message
UPLOAD_COLUMNS ==
    <<"order_no", "name", "phone", "postal", "addr", "product", "qty", "note">>

\* the columns of pd.DataFrame(rows): the keys of the dicts; none when the
\* list is empty
FrameColumns(rows) == IF rows = <<>> THEN <<>> ELSE UPLOAD_COLUMNS

build_cj_upload_df(df) ==
    IF df.ncols <= RequiredMaxIdx
    THEN [status |-> "ValueError", rows |-> <<>>, original_count |-> 0,
          error |-> ColumnCountError(RequiredMaxIdx + 1, df.ncols)]
    ELSE LET clean   == BuildClean(df)
             keys    == [i \in 1..Len(clean) |-> BuildKey(clean[i])]
             leaders == GroupLeaders(keys)
             rows    == [g \in 1..Len(leaders) |->
                            BuildRow(clean, keys, leaders[g])]
         IN  [status |-> "ok",
              columns |-> FrameColumns(rows),
              rows |-> rows,
              original_count |-> Len(clean)]

-----------------------------------------------------------------------------
(* logistics_engine.py: match_and_fill_waybill *)

\* dict.get(k, "")
Get(d, k) == IF k \in DOMAIN d THEN d[k] ELSE EMPTY

\* CjLookup in which a later record of an order-id overwrites the earlier one
CjLookupLastWins(cj, order_col, waybill_col) ==
    LET key(i) == Strip(cj.rows[i][order_col])
        val(i) == Strip(cj.rows[i][waybill_col])
        keys   == {key(i) : i \in 1..Len(cj.rows)} \ {EMPTY}
    IN  [k \in keys |-> val(Max({i \in 1..Len(cj.rows) : key(i) = k}))]

\* cj_lookup: stripped order-id -> stripped tracking number, the first record
\* of an order-id wins, records with an empty order-id are skipped
CjLookup(cj, order_col, waybill_col) ==
    LET key(i) == Strip(cj.rows[i][order_col])
        val(i) == Strip(cj.rows[i][waybill_col])
        keys   == {key(i) : i \in 1..Len(cj.rows)} \ {EMPTY}
    IN  [k \in keys |-> val(Min({i \in 1..Len(cj.rows) : key(i) = k}))]

\* clean_keys: the order-id and the cleaned identity of every row read
CleanKeys(df) ==
    LET rec(r) ==
            [order_no |-> Strip(r[NAVER.order_no]),
             name     |-> clean_text(r[NAVER.name]),
             phone    |-> clean_phone(r[NAVER.phone]),
             addr     |-> truncate_address(clean_text(r[NAVER.addr]),
                                           ADDRESS_MAX_LEN)]
    IN  SelectSeq([i \in 1..Len(df.rows) |-> rec(df.rows[i])], HasOrderNo)

\* MatchKey that leaves the phone out of the key
MatchKeyNoPhone(x) == <<x.name, <<>>, x.addr>>

\* the groupby key of match_and_fill_waybill
MatchKey(x) == <<x.name, x.phone, x.addr>>

\* rep_of: order-id -> the first order-id of its group; groups are visited in
\* first-seen order and a later group overwrites an order-id seen before
RepOf(ck) ==
    LET keys    == [i \in 1..Len(ck) |-> MatchKey(ck[i])]
        leaders == GroupLeaders(keys)
        In(g, o) == \E j \in 1..Len(ck) : keys[j] = keys[leaders[g]]
                                          /\ ck[j].order_no = o
        last(o) == Max({g \in 1..Len(leaders) : In(g, o)})
    IN  [o \in {ck[i].order_no : i \in 1..Len(ck)} |->
            ck[leaders[last(o)]].order_no]

\* Resolve with the lookups swapped: the order-id's own entry first
ResolveOwnFirst(rep_of, cj_lookup, o) ==
    IF Get(cj_lookup, o) # EMPTY THEN Get(cj_lookup, o)
    ELSE Get(cj_lookup, rep_of[o])

\* the tracking number an order-id resolves to: the representative's, else
\* its own, else none ("")
Resolve(rep_of, cj_lookup, o) ==
    IF Get(cj_lookup, rep_of[o]) # EMPTY THEN Get(cj_lookup, rep_of[o])
    ELSE Get(cj_lookup, o)

\* order_to_waybill: only the order-ids that resolve
OrderToWaybill(rep_of, cj_lookup) ==
    [o \in {x \in DOMAIN rep_of : Resolve(rep_of, cj_lookup, x) # EMPTY} |->
        Resolve(rep_of, cj_lookup, o)]

\* the worksheet openpyxl writes into: wb.active
ActiveSheet(wb) == wb.sheets[wb.active]

\* str(cell.value or "").strip() of the order-id cell of a worksheet row
CellOrderNo(row) ==
    IF NAVER.order_no \in DOMAIN row THEN Strip(row[NAVER.order_no]) ELSE EMPTY

\* DataStartRow without the step past the header row
DataStartRowAtHeader(header_idx) == header_idx + 1

\* header_idx + 2: 0-based header index to the 1-based row after it
DataStartRow(header_idx) == header_idx + 2

\* LoopBody that leaves the carrier-name cell alone for an unissued row
LoopBodyTrackingOnly(acc, r, order_no, waybill) ==
    IF waybill # EMPTY
    THEN [acc EXCEPT !.rows[r][NAVER.carrier] = CJ_NAME,
                     !.rows[r][NAVER.waybill] = waybill,
                     !.matched = @ + 1]
    ELSE [acc EXCEPT !.rows[r][NAVER.waybill] = UNISSUED,
                     !.unmatched = @ + 1,
                     !.unmatched_list = Append(@, order_no)]

\* LoopBody that lists every order-id, matched or not, as unmatched
LoopBodyListsAll(acc, r, order_no, waybill) ==
    IF waybill # EMPTY
    THEN [acc EXCEPT !.rows[r][NAVER.carrier] = CJ_NAME,
                     !.rows[r][NAVER.waybill] = waybill,
                     !.matched = @ + 1,
                     !.unmatched_list = Append(@, order_no)]
    ELSE [acc EXCEPT !.rows[r][NAVER.carrier] = UNISSUED,
                     !.rows[r][NAVER.waybill] = UNISSUED,
                     !.unmatched = @ + 1,
                     !.unmatched_list = Append(@, order_no)]

\* LoopBody that writes the carrier name into the recipient-phone column, one
\* of the columns the identity key is read from
LoopBodyCarrierInPhone(acc, r, order_no, waybill) ==
    IF waybill # EMPTY
    THEN [acc EXCEPT !.rows[r][NAVER.phone] = CJ_NAME,
                     !.rows[r][NAVER.waybill] = waybill,
                     !.matched = @ + 1]
    ELSE [acc EXCEPT !.rows[r][NAVER.phone] = UNISSUED,
                     !.rows[r][NAVER.waybill] = UNISSUED,
                     !.unmatched = @ + 1,
                     !.unmatched_list = Append(@, order_no)]

\* the body of the write loop for a row that has an order-id: `acc` holds the
\* worksheet rows, the two counters and the unmatched list
LoopBody(acc, r, order_no, waybill) ==
    IF waybill # EMPTY
    THEN [acc EXCEPT !.rows[r][NAVER.carrier] = CJ_NAME,
                     !.rows[r][NAVER.waybill] = waybill,
                     !.matched = @ + 1]
    ELSE [acc EXCEPT !.rows[r][NAVER.carrier] = UNISSUED,
                     !.rows[r][NAVER.waybill] = UNISSUED,
                     !.unmatched = @ + 1,
                     !.unmatched_list = Append(@, order_no)]

\* for row_cells in ws.iter_rows(min_row=r, max_row=max_row)
RECURSIVE WriteLoop(_, _, _, _)
WriteLoop(acc, r, max_row, order_to_waybill) ==
    IF r > max_row THEN acc
    ELSE LET order_no == CellOrderNo(acc.rows[r])
             waybill  == Get(order_to_waybill, order_no)
         IN  IF order_no = EMPTY
             THEN WriteLoop(acc, r + 1, max_row, order_to_waybill)
             ELSE WriteLoop(LoopBody(acc, r, order_no, waybill), r + 1,
                            max_row, order_to_waybill)

\* the statements of match_and_fill_waybill, in the order they run
MatchSteps ==
    <<"map_cj_columns", "cj_lookup", "read_naver_excel", "clean_keys",
      "rep_of", "order_to_waybill", "find_header_row", "load_workbook",
      "write", "save">>

\* StepsUpTo of a function that loads the workbook before anything else
StepsUpToLoadFirst(at) ==
    <<"load_workbook">> \o
    SubSeq(MatchSteps, 1, CHOOSE i \in 1..Len(MatchSteps) : MatchSteps[i] = at)

\* the statements that ran when the call raised in statement `at`
StepsUpTo(at) ==
    SubSeq(MatchSteps, 1, CHOOSE i \in 1..Len(MatchSteps) : MatchSteps[i] = at)

\* the call raised in statement `at`: nothing is returned
Failed(err, at) ==
    [status |-> err.type, error |-> err, wb |-> <<>>, matched |-> 0,
     unmatched |-> 0, unmatched_list |-> <<>>, cj_lookup |-> <<>>,
     rep_of |-> <<>>, order_to_waybill |-> <<>>, header_idx |-> -1,
     steps |-> StepsUpTo(at)]

match_and_fill_waybill(wb, cj) ==
    LET cols == map_cj_columns(cj.columns)
        df   == read_naver_excel(wb)
        ws   == ActiveSheet(wb)
    IN  IF ~cols.ok THEN Failed(cols.error, "map_cj_columns")
        ELSE IF df.status # "ok" THEN Failed(df.error, "read_naver_excel")
        ELSE IF df.ncols <= NAVER.addr THEN Failed(PositionError, "clean_keys")
        ELSE
        LET cj_lookup == CjLookup(cj, cols.order, cols.waybill)
            rep_of    == RepOf(CleanKeys(df))
            o2w       == OrderToWaybill(rep_of, cj_lookup)
            hdr       == find_header_row(wb)
            start     == DataStartRow(hdr)
            max_row   == Len(ws.rows)
            acc0      == [rows |-> ws.rows, matched |-> 0, unmatched |-> 0,
                          unmatched_list |-> <<>>]
            acc       == WriteLoop(acc0, start, max_row, o2w)
        IN  IF ws.ncols <= NAVER.waybill
               /\ \E r \in start..max_row : CellOrderNo(ws.rows[r]) # EMPTY
            THEN Failed(PositionError, "write")
            ELSE [status    |-> "ok",
                  wb        |-> [wb EXCEPT !.sheets[wb.active].rows = acc.rows],
                  matched   |-> acc.matched,
                  unmatched |-> acc.unmatched,
                  unmatched_list |-> acc.unmatched_list,
                  cj_lookup |-> cj_lookup,
                  rep_of    |-> rep_of,
                  order_to_waybill |-> o2w,
                  header_idx |-> hdr,
                  steps     |-> MatchSteps]

-----------------------------------------------------------------------------
(* Inputs: order worksheets, order tables and carrier tables *)

\* the columns of an order worksheet the model keeps: the ten fixed positions
\* and column 1, which no operation reads or writes
Cols == {NAVER[k] : k \in DOMAIN NAVER} \cup {1}

FullWidth == RequiredMaxIdx + 1

\* recipients as typed: 2 is 1 with an emoji, an unhyphenated phone and a tab
\* in the address; 3, 4 and 5 differ from 1 in phone, name and address
Identities == <<
    [name |-> <<"K">>,          phone |-> <<"0", "-", "1">>, addr |-> <<"S", " ", "A">>],
    [name |-> <<"K", "EMOJI">>, phone |-> <<"0", "1">>,      addr |-> <<"S", "TAB", "A">>],
    [name |-> <<"K">>,          phone |-> <<"0", "2">>,      addr |-> <<"S", " ", "A">>],
    [name |-> <<"L">>,          phone |-> <<"0", "-", "1">>, addr |-> <<"S", " ", "A">>],
    [name |-> <<"K">>,          phone |-> <<"0", "-", "1">>, addr |-> <<"S", " ", "B">>] >>

\* the order-id of the i-th line item
OrderId(i) == <<"O", AsciiDigits[i + 1]>>

Padded(s) == <<" ">> \o s \o <<" ">>

\* quantities as typed: two decimal strings, a non-number, a superscript digit
Quantities == {<<"7">>, <<"0", "5">>, <<"x">>, <<"SUP2">>}

\* the i-th line item of an export
OrderRow(i, order_cell, ident, qty) ==
    [c \in Cols |->
        CASE c = NAVER.order_no -> order_cell
          [] c = NAVER.name     -> Identities[ident].name
          [] c = NAVER.phone    -> Identities[ident].phone
          [] c = NAVER.addr     -> Identities[ident].addr
          [] c = NAVER.product  -> <<" ", "P", AsciiDigits[i + 1]>>
          [] c = NAVER.qty      -> qty
          [] c = NAVER.postal   -> <<"0", AsciiDigits[i + 1], " ">>
          [] c = NAVER.note     -> <<"LF", "n", AsciiDigits[i + 1]>>
          [] c = 1              -> <<"k", "e", "e", "p">>
          [] OTHER              -> EMPTY]

\* a row without order-id (a blank or a totals row)
BlankRow == [c \in Cols |-> IF c = 1 THEN <<"s", "u", "m">> ELSE EMPTY]

\* the header row of the export
HeaderRow ==
    [c \in Cols |->
        CASE c = NAVER.order_no -> SENTINEL
          [] c = NAVER.carrier  -> <<"taek", "bae", "sa">>
          [] c = NAVER.waybill  -> <<"song", "jang", "beon", "ho">>
          [] c = NAVER.name     -> <<"su", "chwi", "in", "myeong">>
          [] OTHER              -> <<"h">>]

\* a banner row above the header: a sentence that mentions the sentinel
BannerRow ==
    [c \in Cols |->
        IF c = NAVER.order_no
        THEN <<"a", " ">> \o SENTINEL \o <<",", " ", "b">>
        ELSE EMPTY]

SeqsUpTo(S, n) == UNION {[1..k -> S] : k \in 0..n}

\* what a data row of the matching input may be
MatchRowChoices ==
    {<<"blank", 1>>} \cup ({"plain", "padded"} \X {1, 2, 3})

MatchRow(i, ch) ==
    IF ch[1] = "blank" THEN BlankRow
    ELSE OrderRow(i, IF ch[1] = "padded" THEN Padded(OrderId(i)) ELSE OrderId(i),
                  ch[2], <<"1">>)

OrderSheet(banners, choices) ==
    [ncols |-> FullWidth,
     rows  |-> [b \in 1..banners |-> BannerRow] \o <<HeaderRow>>
               \o [i \in 1..Len(choices) |-> MatchRow(i, choices[i])]]

SmartFiles ==
    {[sheets |-> <<OrderSheet(b, ch)>>, active |-> 1] :
        b \in 0..MaxBanner, ch \in SeqsUpTo(MatchRowChoices, MaxRows)}

\* carrier tables: recipient, order-id and tracking columns
CjColumns ==
    << <<"su", "chwi", "in", "myeong">>,
       <<"go", "gaek", "ju", "mun", "beon", "ho">>,
       <<"un", "song", "jang", "beon", "ho">> >>

CjRecords ==
    {<< <<"K">>, k, v >> :
        k \in {OrderId(1), Padded(OrderId(2))},
        v \in {EMPTY, <<"6", "1">>, <<" ", "6", "2">>}}

CjTables == {[columns |-> CjColumns, rows |-> r] : r \in SeqsUpTo(CjRecords, MaxCj)}

\* what a row of the table handed to build_cj_upload_df may be
BuildRowChoices ==
    {<<"blank", 1, EMPTY>>} \cup ({"plain"} \X (1..5) \X Quantities)

BuildInputRow(i, ch) ==
    IF ch[1] = "blank" THEN BlankRow ELSE OrderRow(i, OrderId(i), ch[2], ch[3])

OrderTables ==
    {[status |-> "ok", ncols |-> FullWidth,
      rows |-> [i \in 1..Len(ch) |-> BuildInputRow(i, ch[i])]] :
        ch \in SeqsUpTo(BuildRowChoices, MaxOrders)}

\* tables one column short of the minimum
ShortTables ==
    {[status |-> "ok", ncols |-> FullWidth - 1,
      rows |-> [i \in 1..n |->
                  [c \in Cols \ {NAVER.note} |-> OrderRow(i, OrderId(i), 1, <<"7">>)[c]]]] :
        n \in 0..1}

NoFile  == [sheets |-> <<>>, active |-> 0]
NoTable == [columns |-> <<>>, rows |-> <<>>]
NoFrame == [status |-> "none", ncols |-> 0, rows |-> <<>>]
NoOut   == [status |-> "none"]

-----------------------------------------------------------------------------
(* Tab 1: build_cj_upload_df on an order table *)

InitBuild ==
    /\ pc = "start"
    /\ op = "build"
    /\ df_smart \in OrderTables \cup ShortTables
    /\ smart_file = NoFile
    /\ cj_df = NoTable
    /\ build_out = NoOut
    /\ match_out = NoOut
    /\ arg = EMPTY
    /\ ret = NoOut

BuildCjUploadDf ==
    /\ pc = "start"
    /\ op = "build"
    /\ build_out' = build_cj_upload_df(df_smart)
    /\ pc' = "done"
    /\ UNCHANGED <<op, smart_file, cj_df, df_smart, match_out, arg, ret>>

NextBuild == BuildCjUploadDf

SpecBuild == InitBuild /\ [][NextBuild]_vars

-----------------------------------------------------------------------------
(* Tab 2: match_and_fill_waybill on an order file and a carrier table *)

InitMatch ==
    /\ pc = "start"
    /\ op = "match"
    /\ smart_file \in SmartFiles
    /\ cj_df \in CjTables
    /\ df_smart = NoFrame
    /\ build_out = NoOut
    /\ match_out = NoOut
    /\ arg = EMPTY
    /\ ret = NoOut

MatchAndFillWaybill ==
    /\ pc = "start"
    /\ op = "match"
    /\ match_out' = match_and_fill_waybill(smart_file, cj_df)
    /\ pc' = "done"
    /\ UNCHANGED <<op, smart_file, cj_df, df_smart, build_out, arg, ret>>

NextMatch == MatchAndFillWaybill

SpecMatch == InitMatch /\ [][NextMatch]_vars

-----------------------------------------------------------------------------
(* Vocabulary of the properties *)

\* the identity triple of a row: normalized recipient name, phone and address
IdentityTriple(row) ==
    <<clean_text(row[NAVER.name]), clean_phone(row[NAVER.phone]),
      truncate_address(clean_text(row[NAVER.addr]), ADDRESS_MAX_LEN)>>

TrimmedOrderNo(row) == Strip(row[NAVER.order_no])

HasTrimmedOrderNo(row) == TrimmedOrderNo(row) # EMPTY

Range(s) == {s[i] : i \in 1..Len(s)}

MatchDone == pc = "done" /\ op = "match" /\ match_out.status = "ok"

BuildDone == pc = "done" /\ op = "build" /\ build_out.status = "ok"

\* the line items of the order file, in file order
LineItems == read_naver_excel(smart_file).rows

\* the order-ids of the order file
OrderIds == {TrimmedOrderNo(LineItems[i]) : i \in 1..Len(LineItems)}

\* the line item carrying order-id o
ItemOf(o) ==
    LineItems[Min({i \in 1..Len(LineItems) : TrimmedOrderNo(LineItems[i]) = o})]

\* o1 and o2 ship together
SameShipment(o1, o2) == IdentityTriple(ItemOf(o1)) = IdentityTriple(ItemOf(o2))

\* the representative of o: the first order-id, in file order, of its shipment
Representative(o) ==
    TrimmedOrderNo(LineItems[Min({i \in 1..Len(LineItems) :
        IdentityTriple(LineItems[i]) = IdentityTriple(ItemOf(o))})])

\* the carrier's columns by their names
CjOrderCol ==
    CHOOSE c \in 1..Len(cj_df.columns) :
        cj_df.columns[c] = <<"go", "gaek", "ju", "mun", "beon", "ho">>

CjTrackingCol ==
    CHOOSE c \in 1..Len(cj_df.columns) :
        cj_df.columns[c] = <<"un", "song", "jang", "beon", "ho">>

\* the carrier lookup value of an order-id: the trimmed tracking number of the
\* first carrier record keyed to it, "" when there is none
CarrierValue(o) ==
    LET hits == {i \in 1..Len(cj_df.rows) : Strip(cj_df.rows[i][CjOrderCol]) = o}
    IN  IF hits = {} THEN EMPTY ELSE Strip(cj_df.rows[Min(hits)][CjTrackingCol])

\* the tracking number o resolved to, "" when unresolved
Resolved(o) == Get(match_out.order_to_waybill, o)

-----------------------------------------------------------------------------
(* match_and_fill_waybill: properties *)

\* C1: after match_and_fill_waybill, any two order-ids of the same shipment
\* group resolve to the same tracking number or are both unresolved.
C1_GroupResolvesTogether ==
    MatchDone =>
        \A o1 \in OrderIds, o2 \in OrderIds :
            SameShipment(o1, o2) => Resolved(o1) = Resolved(o2)

SheetIn == ActiveSheet(smart_file)

SheetOut == ActiveSheet(match_out.wb)

\* the 1-based worksheet row of the header
HeaderRowNo == find_header_row(smart_file) + 1

\* the data rows of the worksheet: below the header, order-id cell not empty
DataRowNos ==
    {r \in 1..Len(SheetIn.rows) :
        r > HeaderRowNo /\ HasTrimmedOrderNo(SheetIn.rows[r])}

WriteTargets == {NAVER.carrier, NAVER.waybill}

\* C3: match_and_fill_waybill changes no cell but the carrier-name and the
\* tracking cell of data rows: the header row and the rows above it, the rows
\* without order-id and every other column of a data row keep their values.
C3_OnlyTargetCellsChange ==
    MatchDone =>
        /\ Len(match_out.wb.sheets) = Len(smart_file.sheets)
        /\ match_out.wb.active = smart_file.active
        /\ \A s \in 1..Len(smart_file.sheets) :
            LET in  == smart_file.sheets[s]
                out == match_out.wb.sheets[s]
            IN  /\ out.ncols = in.ncols
                /\ Len(out.rows) = Len(in.rows)
                /\ \A r \in 1..Len(in.rows) :
                    /\ DOMAIN out.rows[r] = DOMAIN in.rows[r]
                    /\ \A c \in DOMAIN in.rows[r] :
                        (\/ s # smart_file.active
                         \/ r <= HeaderRowNo
                         \/ ~HasTrimmedOrderNo(in.rows[r])
                         \/ c \notin WriteTargets)
                        => out.rows[r][c] = in.rows[r][c]

\* a file with a banner, a row without order-id and a written data row
C3_Witness ==
    /\ MatchDone
    /\ HeaderRowNo > 1
    /\ \E r \in 1..Len(SheetIn.rows) :
        r > HeaderRowNo /\ ~HasTrimmedOrderNo(SheetIn.rows[r])
    /\ \E r \in DataRowNos :
        SheetOut.rows[r][NAVER.carrier] # SheetIn.rows[r][NAVER.carrier]

\* C4: every data row gets the pair (carrier name, resolved tracking number)
\* when its order-id resolves, and (unissued, unissued) otherwise; never one
\* cell alone, never the carrier name with an empty tracking number.
C4_PairWritten ==
    MatchDone =>
        \A r \in DataRowNos :
            LET o   == TrimmedOrderNo(SheetIn.rows[r])
                w   == IF o \notin OrderIds THEN EMPTY
                       ELSE IF CarrierValue(Representative(o)) # EMPTY
                       THEN CarrierValue(Representative(o))
                       ELSE CarrierValue(o)
                out == SheetOut.rows[r]
            IN  /\ w # EMPTY =>
                    out[NAVER.carrier] = CJ_NAME /\ out[NAVER.waybill] = w
                /\ w = EMPTY =>
                    out[NAVER.carrier] = UNISSUED /\ out[NAVER.waybill] = UNISSUED
                /\ ~(out[NAVER.carrier] = CJ_NAME /\ out[NAVER.waybill] = EMPTY)

\* one file with a matched row and an unissued row
C4_Witness ==
    /\ MatchDone
    /\ \E r1 \in DataRowNos, r2 \in DataRowNos :
        /\ SheetOut.rows[r1][NAVER.carrier] = CJ_NAME
        /\ SheetOut.rows[r1][NAVER.waybill] \in {<<"6", "1">>, <<"6", "2">>}
        /\ SheetOut.rows[r2][NAVER.carrier] = UNISSUED
        /\ SheetOut.rows[r2][NAVER.waybill] = UNISSUED

\* the data rows written with `mark` in the carrier-name cell, in row order
RowsMarked(mark) ==
    SelectSeq(Indices(Len(SheetOut.rows)),
              LAMBDA r : r \in DataRowNos /\ SheetOut.rows[r][NAVER.carrier] = mark)

\* C5: the counts describe what was written: matched-count rows carry the
\* carrier name, unmatched-count rows carry the unissued literal, and the
\* unmatched list holds the order-ids of exactly those rows, in row order,
\* and no matched order-id.
C5_CountsDescribeWrites ==
    MatchDone =>
        LET hit  == RowsMarked(CJ_NAME)
            miss == RowsMarked(UNISSUED)
        IN  /\ match_out.matched = Len(hit)
            /\ match_out.unmatched = Len(miss)
            /\ Len(match_out.unmatched_list) = match_out.unmatched
            /\ match_out.unmatched_list =
                   [k \in 1..Len(miss) |-> TrimmedOrderNo(SheetIn.rows[miss[k]])]
            /\ \A k \in 1..Len(hit) :
                   TrimmedOrderNo(SheetIn.rows[hit[k]])
                       \notin Range(match_out.unmatched_list)

\* one matched and one unissued row were counted
C5_Witness ==
    /\ MatchDone
    /\ match_out.matched = 1
    /\ match_out.unmatched = 1
    /\ Len(RowsMarked(CJ_NAME)) = 1

-----------------------------------------------------------------------------
(* build_cj_upload_df: properties *)

\* the input rows that have an order-id, in input order
OrderRows == SelectSeq(df_smart.rows, HasTrimmedOrderNo)

\* the rows (positions in OrderRows) of the g-th shipment group returned
GroupOf(g) == Range(build_out.rows[g].members)

Groups == 1..Len(build_out.rows)

\* no two rows that have an order-id share their identity triple
AllDistinct ==
    \A i \in 1..Len(OrderRows), j \in 1..Len(OrderRows) :
        i # j => IdentityTriple(OrderRows[i]) # IdentityTriple(OrderRows[j])

\* C6: build_cj_upload_df partitions the rows that have an order-id: each is
\* in exactly one group, two rows share a group exactly when their identity
\* triples are equal, and rows with pairwise distinct triples give as many
\* output rows as input rows.
C6_GroupsPartitionRows ==
    BuildDone =>
        /\ \A g \in Groups : GroupOf(g) \subseteq 1..Len(OrderRows)
        /\ \A i \in 1..Len(OrderRows) :
               Cardinality({g \in Groups : i \in GroupOf(g)}) = 1
        /\ \A i \in 1..Len(OrderRows), j \in 1..Len(OrderRows) :
               (\E g \in Groups : i \in GroupOf(g) /\ j \in GroupOf(g))
                   <=> IdentityTriple(OrderRows[i]) = IdentityTriple(OrderRows[j])
        /\ AllDistinct => Len(build_out.rows) = Len(OrderRows)

\* three orders: two typed differently for one recipient, one for another
C6_Witness ==
    /\ BuildDone
    /\ Len(OrderRows) = 3
    /\ Len(build_out.rows) = 2
    /\ \E i \in 1..3, j \in 1..3 :
        /\ i # j
        /\ OrderRows[i][NAVER.name] # OrderRows[j][NAVER.name]
        /\ \E g \in Groups : {i, j} \subseteq GroupOf(g)

\* C7: groups come in the order their first rows appear in the input, and the
\* representative order-id, the postal code and the delivery note of a group
\* are those of its first row.
C7_FirstSeenOrderAndRepresentative ==
    BuildDone =>
        /\ \A g \in Groups, h \in Groups :
               g < h => Min(GroupOf(g)) < Min(GroupOf(h))
        /\ \A g \in Groups :
               LET first == OrderRows[Min(GroupOf(g))]
               IN  /\ build_out.rows[g].order_no = TrimmedOrderNo(first)
                   /\ build_out.rows[g].postal = Strip(first[NAVER.postal])
                   /\ build_out.rows[g].note = clean_text(first[NAVER.note])

\* two groups, the first one with a member after the second group's first row
C7_Witness ==
    /\ BuildDone
    /\ Len(build_out.rows) = 2
    /\ Max(GroupOf(1)) > Min(GroupOf(2))
    /\ build_out.rows[1].order_no = TrimmedOrderNo(OrderRows[1])

\* C8: the product summary of a group is its sole product name when it has
\* one row, and else the first row's product name followed by " oe <n-1>geon"
\* for its n rows.
C8_ProductSummary ==
    BuildDone =>
        \A g \in Groups :
            LET n     == Cardinality(GroupOf(g))
                first == Strip(OrderRows[Min(GroupOf(g))][NAVER.product])
            IN  build_out.rows[g].product =
                    IF n = 1 THEN first
                    ELSE first \o <<" ", "oe", " ", AsciiDigits[n]>> \o <<"geon">>

\* three bundled rows give "<first product> oe 2geon"
C8_Witness ==
    /\ BuildDone
    /\ \E g \in Groups :
        /\ Cardinality(GroupOf(g)) = 3
        /\ build_out.rows[g].product = <<"P", "1", " ", "oe", " ", "2", "geon">>

\* a quantity that parses as an integer: a non-empty string of decimal digits
ParsesAsInt(q) ==
    Strip(q) # EMPTY /\ \A i \in 1..Len(Strip(q)) : Strip(q)[i] \in AsciiDigitSet

\* the quantities of a group, in row order
GroupQtys(g) ==
    LET m == build_out.rows[g].members
    IN  [k \in 1..Len(m) |-> OrderRows[m[k]][NAVER.qty]]

\* C9: the quantity of a group is the decimal string of the sum of its
\* members' quantities that parse as integers, and the first member's raw
\* quantity only when none of them parses.
C9_QuantityIsSum ==
    BuildDone =>
        \A g \in Groups :
            LET ints == SelectSeq(GroupQtys(g), ParsesAsInt)
            IN  build_out.rows[g].qty =
                    IF ints # <<>>
                    THEN StrOfInt(SumSeq([k \in 1..Len(ints) |-> IntOf(Strip(ints[k]))]))
                    ELSE Strip(GroupQtys(g)[1])

\* C10: the original count is the number of input rows that have an order-id
\* and the sum of the group sizes; the savings (original count minus output
\* rows) are never negative and are zero exactly when no two rows share an
\* identity triple.
C10_OriginalCount ==
    BuildDone =>
        /\ build_out.original_count =
               Cardinality({i \in 1..Len(df_smart.rows) :
                               HasTrimmedOrderNo(df_smart.rows[i])})
        /\ build_out.original_count =
               SumSeq([g \in Groups |-> Len(build_out.rows[g].members)])
        /\ build_out.original_count - Len(build_out.rows) >= 0
        /\ (build_out.original_count - Len(build_out.rows) = 0) <=> AllDistinct

\* a table with a row without order-id and a bundle: savings of one
C10_Witness ==
    /\ BuildDone
    /\ Len(df_smart.rows) = 3
    /\ build_out.original_count = 2
    /\ Len(build_out.rows) = 1

-----------------------------------------------------------------------------
(* Header location and reading on their own: find_header_row,              *)
(* read_naver_excel, and match_and_fill_waybill on the same files          *)

\* most banner rows above the header of a file whose header is searched
MaxTop == 4

\* the header row with blanks typed around the sentinel
PaddedHeaderRow == [HeaderRow EXCEPT ![NAVER.order_no] = Padded(SENTINEL)]

\* a header row whose sentinel is not in the first column
ShiftedHeaderRow ==
    [HeaderRow EXCEPT ![NAVER.order_no] = <<"n", "o">>, ![1] = SENTINEL]

\* what stands where the header is expected
HeaderChoices == {"none", "plain", "padded", "shifted"}

HeaderRowsOf(kind) ==
    CASE kind = "plain"   -> <<HeaderRow>>
      [] kind = "padded"  -> <<PaddedHeaderRow>>
      [] kind = "shifted" -> <<ShiftedHeaderRow>>
      [] OTHER            -> <<>>

\* what a row below the header may be: a line item (order-id plain or with
\* blanks around it), an empty row, a row whose order-id is blanks only, the
\* header repeated, a line item whose order-id is the text NA
ReadRowChoices == {"plain", "padded", "blank", "spaces", "header", "na"}

ReadRow(i, ch) ==
    CASE ch = "plain"  -> OrderRow(i, OrderId(i), 1, <<"1">>)
      [] ch = "padded" -> OrderRow(i, Padded(OrderId(i)), 1, <<"1">>)
      [] ch = "spaces" -> OrderRow(i, <<" ", "NBSP">>, 1, <<"1">>)
      [] ch = "header" -> HeaderRow
      [] ch = "na"     -> OrderRow(i, <<"N", "A">>, 1, <<"1">>)
      [] OTHER         -> BlankRow

ReadSheet(banners, kind, choices) ==
    [ncols |-> FullWidth,
     rows  |-> [b \in 1..banners |-> BannerRow] \o HeaderRowsOf(kind)
               \o [i \in 1..Len(choices) |-> ReadRow(i, choices[i])]]

ReadFiles ==
    {[sheets |-> <<ReadSheet(b, k, ch)>>, active |-> 1] :
        b \in 0..MaxTop, k \in HeaderChoices,
        ch \in SeqsUpTo(ReadRowChoices, MaxRows)}

\* a carrier table whose columns resolve and one without a tracking column
ReadCjTables ==
    {[columns |-> CjColumns,
      rows |-> << << <<"K">>, OrderId(1), <<"6", "1">> >> >>],
     [columns |-> << <<"su", "chwi", "in", "myeong">>,
                     <<"go", "gaek", "ju", "mun", "beon", "ho">>,
                     <<"m", "e", "m", "o">> >>,
      rows |-> << << <<"K">>, OrderId(1), <<"6", "1">> >> >>]}

InitRead ==
    /\ pc = "start"
    /\ op \in {"find_header_row", "read_naver_excel", "match"}
    /\ smart_file \in ReadFiles
    /\ cj_df \in ReadCjTables
    /\ df_smart = NoFrame
    /\ build_out = NoOut
    /\ match_out = NoOut
    /\ arg = EMPTY
    /\ ret = NoOut

FindHeaderRow ==
    /\ pc = "start"
    /\ op = "find_header_row"
    /\ ret' = LET h == find_header_row(smart_file)
              IN  IF h < 0
                  THEN [status |-> "ValueError", error |-> HeaderError]
                  ELSE [status |-> "ok", value |-> h]
    /\ pc' = "done"
    /\ UNCHANGED <<op, smart_file, cj_df, df_smart, build_out, match_out, arg>>

ReadNaverExcel ==
    /\ pc = "start"
    /\ op = "read_naver_excel"
    /\ ret' = read_naver_excel(smart_file)
    /\ pc' = "done"
    /\ UNCHANGED <<op, smart_file, cj_df, df_smart, build_out, match_out, arg>>

NextRead == FindHeaderRow \/ ReadNaverExcel \/ MatchAndFillWaybill

SpecRead == InitRead /\ [][NextRead]_vars

-----------------------------------------------------------------------------
(* find_header_row, read_naver_excel: properties *)

\* the grid of the order file: the rows of its first worksheet
Grid == FirstSheet(smart_file).rows

\* row r (1-based) of the grid has a cell that is, trimmed, the sentinel
ExactSentinelRow(r) ==
    \E c \in DOMAIN Grid[r] : Strip(Grid[r][c]) = SENTINEL

\* row r (1-based) only mentions the sentinel inside a longer text
MentionsSentinelRow(r) ==
    /\ ~ExactSentinelRow(r)
    /\ \E c \in DOMAIN Grid[r] : Contains(SENTINEL, Grid[r][c])

HeaderDone == pc = "done" /\ op = "find_header_row"

ReadDone == pc = "done" /\ op = "read_naver_excel"

\* C11: find_header_row returns the 0-based index of the first row, from the
\* top, with a cell whose trimmed text is exactly the sentinel; rows that only
\* mention the sentinel inside a sentence are passed over, so with the exact
\* sentinel at row k and only banner rows above it the result is k.
C11_FirstExactRow ==
    HeaderDone =>
        /\ ret.status = "ok" =>
               /\ ret.value \in 0..(Len(Grid) - 1)
               /\ ExactSentinelRow(ret.value + 1)
               /\ \A r \in 1..ret.value : ~ExactSentinelRow(r)
        /\ \A k \in 0..(Len(Grid) - 1) :
               (/\ ExactSentinelRow(k + 1)
                /\ \A r \in 1..k : Grid[r] = BannerRow)
               => (ret.status = "ok" /\ ret.value = k)

\* the header found at row 4 under four banner rows that mention the sentinel
C11_Witness ==
    /\ HeaderDone
    /\ ret.status = "ok"
    /\ ret.value = 4
    /\ \A r \in 1..4 : Grid[r] = BannerRow /\ MentionsSentinelRow(r)
    /\ Len(Grid) > 5


\* the order-id cell of a grid row is, trimmed, neither empty nor the sentinel
WellFormedRow(row) ==
    Strip(row[NAVER.order_no]) # EMPTY /\ Strip(row[NAVER.order_no]) # SENTINEL

\* the rows of the grid below its first exact-sentinel row, in file order
RowsBelowHeader ==
    LET h == Min({r \in 1..Len(Grid) : ExactSentinelRow(r)})
    IN  SubSeq(Grid, h + 1, Len(Grid))

\* C12: read_naver_excel returns exactly the rows below the header row whose
\* order-id cell is, trimmed, neither empty nor the sentinel, in file order,
\* none duplicated or moved; n such rows below the header give n rows.
C12_ReturnsWellFormedRows ==
    (ReadDone /\ \E r \in 1..Len(Grid) : ExactSentinelRow(r)) =>
        /\ ret.status = "ok"
        /\ ret.rows = SelectSeq(RowsBelowHeader, WellFormedRow)

\* no cell of the grid is, trimmed, the sentinel
NoSentinelInGrid == \A r \in 1..Len(Grid) : ~ExactSentinelRow(r)

\* C13: when no cell of the grid is, trimmed, the sentinel, find_header_row
\* raises the format error that asks to check the file is the original export
\* and returns no row index; read_naver_excel raises that same error, and so
\* does match_and_fill_waybill once the carrier columns are resolved.
C13_HeaderNotFoundRaises ==
    (pc = "done" /\ NoSentinelInGrid) =>
        /\ op = "find_header_row" =>
               /\ ret.status = "ValueError"
               /\ ret.error = HeaderError
               /\ "value" \notin DOMAIN ret
        /\ op = "read_naver_excel" =>
               /\ ret.status = "ValueError"
               /\ ret.error = HeaderError
               /\ ret.rows = <<>>
        /\ (op = "match" /\ map_cj_columns(cj_df.columns).ok) =>
               /\ match_out.status = "ValueError"
               /\ match_out.error = HeaderError

\* match_and_fill_waybill raised the header error on a file whose rows only
\* mention the sentinel or are line items
C13_Witness ==
    /\ pc = "done"
    /\ op = "match"
    /\ NoSentinelInGrid
    /\ Len(Grid) > 1
    /\ MentionsSentinelRow(1)
    /\ \E r \in 1..Len(Grid) : WellFormedRow(Grid[r])
    /\ match_out.status = "ValueError"
    /\ match_out.error = HeaderError

-----------------------------------------------------------------------------
(* Column resolution on its own: find_column and map_cj_columns over the     *)
(* columns of a carrier table                                              *)

\* most columns of a carrier table whose columns are resolved
MaxColumns == 3

\* the column names of the known carrier exports, the recipient column, and
\* names that hit a keyword only exactly, only as a part, or only in another
\* letter case, and one that reads as both roles ("order tracking number")
ColumnNames ==
    {<<"un", "song", "jang", "beon", "ho">>,
     <<"go", "gaek", "ju", "mun", "beon", "ho">>,
     <<"song", "jang", "beon", "ho">>,
     <<"ju", "mun", "beon", "ho">>,
     <<"I", "n", "v", "o", "i", "c", "e", " ", "N", "o", ".">>,
     <<"O", "r", "d", "e", "r", " ", "N", "o", ".">>,
     <<"un", "song", "jang", " ", "beon", "ho">>,
     <<"go", "gaek", " ", "ju", "mun", " ", "beon", "ho">>,
     <<"C", "J", "un", "song", "jang", "beon", "ho">>,
     <<"su", "chwi", "in", "myeong">>,
     <<" ", "ju", "mun", " ">>,
     <<"go", "gaek", "ju", "mun", "beon", "ho", "(", "C", "J", ")">>,
     <<"O", "R", "D", "E", "R">>,
     <<"ju", "mun", " ", "song", "jang", "beon", "ho">>}

ColumnTables ==
    {[columns |-> c, rows |-> <<>>] : c \in SeqsUpTo(ColumnNames, MaxColumns)}

InitColumns ==
    /\ pc = "start"
    /\ \/ op = "find_column" /\ arg \in {_CJ_ORDER_KEYWORDS, _CJ_WAYBILL_KEYWORDS}
       \/ op = "map_cj_columns" /\ arg = EMPTY
    /\ cj_df \in ColumnTables
    /\ smart_file = NoFile
    /\ df_smart = NoFrame
    /\ build_out = NoOut
    /\ match_out = NoOut
    /\ ret = NoOut

\* find_column(df, keywords, field_name) with keywords = arg
FindColumn ==
    /\ pc = "start"
    /\ op = "find_column"
    /\ ret' = LET c == find_column(cj_df.columns, arg)
              IN  IF c = 0
                  THEN [status |-> "ValueError",
                        error |-> ColumnError("field", arg, cj_df.columns)]
                  ELSE [status |-> "ok", value |-> c, name |-> cj_df.columns[c]]
    /\ pc' = "done"
    /\ UNCHANGED <<op, smart_file, cj_df, df_smart, build_out, match_out, arg>>

MapCjColumns ==
    /\ pc = "start"
    /\ op = "map_cj_columns"
    /\ ret' = LET m == map_cj_columns(cj_df.columns)
              IN  IF m.ok
                  THEN [status |-> "ok", order |-> cj_df.columns[m.order],
                        waybill |-> cj_df.columns[m.waybill]]
                  ELSE [status |-> "ValueError", error |-> m.error]
    /\ pc' = "done"
    /\ UNCHANGED <<op, smart_file, cj_df, df_smart, build_out, match_out, arg>>

NextColumns == FindColumn \/ MapCjColumns

SpecColumns == InitColumns /\ [][NextColumns]_vars

-----------------------------------------------------------------------------
(* find_column, map_cj_columns: properties *)

\* the keywords (by priority) that some column name equals after trimming
ExactKeywords(cols, keywords) ==
    {k \in 1..Len(keywords) : \E c \in 1..Len(cols) : Strip(cols[c]) = keywords[k]}

\* the keywords (by priority) that some column name contains, letter case
\* ignored, without being equal to them
PartOnlyKeywords(cols, keywords) ==
    {k \in 1..Len(keywords) :
        \E c \in 1..Len(cols) :
            /\ Strip(cols[c]) # keywords[k]
            /\ Contains(Lower(keywords[k]), Lower(Strip(cols[c])))}

FindColumnDone == pc = "done" /\ op = "find_column"

MapCjColumnsDone == pc = "done" /\ op = "map_cj_columns"

\* C14: in find_column an exact match beats a substring match: when some
\* column name equals, trimmed, a keyword of the role, the column returned is
\* one whose trimmed name equals the highest-priority keyword that has an
\* exact match, whatever keyword other columns contain as a substring.
C14_ExactBeatsSubstring ==
    (FindColumnDone /\ ExactKeywords(cj_df.columns, arg) # {}) =>
        /\ ret.status = "ok"
        /\ Strip(cj_df.columns[ret.value]) =
               arg[Min(ExactKeywords(cj_df.columns, arg))]

\* an exact match on a low-priority keyword was returned although an earlier
\* column contains a higher-priority keyword as a substring
C14_Witness ==
    /\ FindColumnDone
    /\ ExactKeywords(cj_df.columns, arg) # {}
    /\ ret.status = "ok"
    /\ \E k \in PartOnlyKeywords(cj_df.columns, arg) :
        /\ k < Min(ExactKeywords(cj_df.columns, arg))
        /\ \E c \in 1..(ret.value - 1) :
            Contains(Lower(arg[k]), Lower(Strip(cj_df.columns[c])))
    /\ Strip(cj_df.columns[ret.value]) = arg[Min(ExactKeywords(cj_df.columns, arg))]


\* the tracking and order-id column names of the known carrier exports
WAYBILL_VARIANTS ==
    {<< <<"un", "song", "jang", "beon", "ho">>,
        <<"go", "gaek", "ju", "mun", "beon", "ho">> >>,
     << <<"song", "jang", "beon", "ho">>,
        <<"ju", "mun", "beon", "ho">> >>,
     << <<"I", "n", "v", "o", "i", "c", "e", " ", "N", "o", ".">>,
        <<"O", "r", "d", "e", "r", " ", "N", "o", ".">> >>,
     << <<"un", "song", "jang", " ", "beon", "ho">>,
        <<"go", "gaek", " ", "ju", "mun", " ", "beon", "ho">> >>,
     << <<"C", "J", "un", "song", "jang", "beon", "ho">>,
        <<"go", "gaek", "ju", "mun", "beon", "ho">> >>}

RecipientColumn == <<"su", "chwi", "in", "myeong">>

\* the columns are the two of variant v and the recipient column, any order
IsVariantTable(cols, v) ==
    /\ Len(cols) = 3
    /\ Range(cols) = {v[1], v[2], RecipientColumn}

\* C15: for a carrier table whose columns are the order-id column and the
\* tracking column of a known variant plus the recipient column,
\* map_cj_columns returns that order-id column for the order role and that
\* tracking column for the waybill role (by substring, letter case ignored,
\* in keyword priority, where no name equals a keyword).
C15_VariantsResolve ==
    MapCjColumnsDone =>
        \A v \in WAYBILL_VARIANTS :
            IsVariantTable(cj_df.columns, v) =>
                /\ ret.status = "ok"
                /\ ret.order = v[2]
                /\ ret.waybill = v[1]

\* both roles found by substring, letter case ignored: no column name equals
\* a keyword
C15_Witness ==
    /\ MapCjColumnsDone
    /\ \E v \in WAYBILL_VARIANTS : IsVariantTable(cj_df.columns, v)
    /\ ExactKeywords(cj_df.columns, _CJ_ORDER_KEYWORDS) = {}
    /\ ExactKeywords(cj_df.columns, _CJ_WAYBILL_KEYWORDS) = {}
    /\ \E c \in 1..3 : cj_df.columns[c] # Lower(cj_df.columns[c])
    /\ ret.status = "ok"

-----------------------------------------------------------------------------
(* match_and_fill_waybill on carrier tables with repeated and empty         *)
(* order-ids                                                               *)

\* carrier records: the order-id plain, with blanks around it, only blanks,
\* or empty; the tracking number one of two, or empty
LookupRecords ==
    {<< <<"K">>, k, v >> :
        k \in {OrderId(1), Padded(OrderId(1)), <<" ", "TAB">>, EMPTY},
        v \in {<<"6", "1">>, <<"6", "2">>, EMPTY}}

LookupTables ==
    {[columns |-> CjColumns, rows |-> r] : r \in SeqsUpTo(LookupRecords, MaxCj)}

LookupFiles ==
    {[sheets |-> <<OrderSheet(0, <<>>)>>, active |-> 1],
     [sheets |-> <<OrderSheet(1, << <<"plain", 1>> >>)>>, active |-> 1]}

InitLookup ==
    /\ pc = "start"
    /\ op = "match"
    /\ smart_file \in LookupFiles
    /\ cj_df \in LookupTables
    /\ df_smart = NoFrame
    /\ build_out = NoOut
    /\ match_out = NoOut
    /\ arg = EMPTY
    /\ ret = NoOut

NextLookup == MatchAndFillWaybill

SpecLookup == InitLookup /\ [][NextLookup]_vars

\* the trimmed order-id and tracking number of carrier record i
CjKey(i) == Strip(cj_df.rows[i][CjOrderCol])

CjVal(i) == Strip(cj_df.rows[i][CjTrackingCol])

\* C16: the carrier lookup is first-write-wins: for several records with the
\* same trimmed non-empty order-id it holds the tracking number of the first
\* of them in table order, later ones never change it; a record whose
\* trimmed order-id is empty is never entered.
C16_FirstWriteWins ==
    MatchDone =>
        /\ EMPTY \notin DOMAIN match_out.cj_lookup
        /\ DOMAIN match_out.cj_lookup =
               {CjKey(i) : i \in 1..Len(cj_df.rows)} \ {EMPTY}
        /\ \A i \in 1..Len(cj_df.rows) :
               (/\ CjKey(i) # EMPTY
                /\ \A j \in 1..(i - 1) : CjKey(j) # CjKey(i))
               => \A k \in i..Len(cj_df.rows) :
                      CjKey(k) = CjKey(i) =>
                          match_out.cj_lookup[CjKey(k)] = CjVal(i)

\* two records share a trimmed order-id and differ in tracking number, a
\* third kind of record has no order-id; the lookup holds the first number
C16_Witness ==
    /\ MatchDone
    /\ Len(cj_df.rows) = 2
    /\ CjKey(1) = CjKey(2)
    /\ CjKey(1) # EMPTY
    /\ cj_df.rows[1][CjOrderCol] # cj_df.rows[2][CjOrderCol]
    /\ CjVal(1) # CjVal(2)
    /\ match_out.cj_lookup[CjKey(2)] = CjVal(1)

-----------------------------------------------------------------------------
(* Order tables and order files narrower than the export                   *)

\* widths below the minimum: short of the order-id only, of the tracking
\* column, of the phone column, of the address column, of the note column
NarrowWidths ==
    {1, NAVER.waybill + 1, NAVER.phone + 1, NAVER.addr + 1, RequiredMaxIdx}

\* the first n columns of a row
Narrowed(row, n) == [c \in {x \in DOMAIN row : x < n} |-> row[c]]

NarrowChoices == {<<"blank", 1>>, <<"plain", 1>>, <<"plain", 2>>}

NarrowTables ==
    {[status |-> "ok", ncols |-> n,
      rows |-> [i \in 1..Len(ch) |-> Narrowed(MatchRow(i, ch[i]), n)]] :
        n \in NarrowWidths, ch \in SeqsUpTo(NarrowChoices \ {<<"blank", 1>>},
                                             MaxOrders)}

NarrowSheet(sheet, n) ==
    [ncols |-> n,
     rows  |-> [r \in 1..Len(sheet.rows) |-> Narrowed(sheet.rows[r], n)]]

NarrowFiles ==
    {[sheets |-> <<NarrowSheet(OrderSheet(b, ch), n)>>, active |-> 1] :
        b \in 0..MaxBanner, ch \in SeqsUpTo(NarrowChoices, MaxRows),
        n \in NarrowWidths}

InitNarrow ==
    /\ pc = "start"
    /\ \/ /\ op = "build"
          /\ df_smart \in NarrowTables
          /\ smart_file = NoFile
          /\ cj_df = NoTable
       \/ /\ op = "match"
          /\ df_smart = NoFrame
          /\ smart_file \in NarrowFiles
          /\ cj_df \in ReadCjTables
    /\ build_out = NoOut
    /\ match_out = NoOut
    /\ arg = EMPTY
    /\ ret = NoOut

NextNarrow == BuildCjUploadDf \/ MatchAndFillWaybill

SpecNarrow == InitNarrow /\ [][NextNarrow]_vars

\* the least number of columns of an order table: the largest fixed column
\* position plus one
MinColumns == RequiredMaxIdx + 1

\* the error is the format error that names the expected and the actual
\* number of columns
IsColumnCountError(err, actual) ==
    /\ err.type = "ValueError"
    /\ err.what = "column count"
    /\ err.expected = MinColumns
    /\ err.actual = actual

\* C17: every core operation given an order table with fewer columns than
\* the minimum (56) fails with the format error naming the expected and the
\* actual column count and produces no output: build_cj_upload_df and
\* match_and_fill_waybill alike.
C17_TooFewColumnsRejected ==
    pc = "done" =>
        /\ (op = "build" /\ df_smart.ncols < MinColumns) =>
               /\ build_out.status = "ValueError"
               /\ IsColumnCountError(build_out.error, df_smart.ncols)
               /\ build_out.rows = <<>>
        /\ (/\ op = "match"
            /\ FirstSheet(smart_file).ncols < MinColumns
            /\ map_cj_columns(cj_df.columns).ok
            /\ find_header_row(smart_file) >= 0) =>
               /\ match_out.status = "ValueError"
               /\ IsColumnCountError(match_out.error,
                                     FirstSheet(smart_file).ncols)
               /\ match_out.wb = <<>>

-----------------------------------------------------------------------------
(* match_and_fill_waybill: validation before writing *)

\* no column name of the carrier table equals or contains a keyword
NoColumnFor(keywords) ==
    /\ ExactKeywords(cj_df.columns, keywords) = {}
    /\ PartOnlyKeywords(cj_df.columns, keywords) = {}

\* C18: match_and_fill_waybill validates before it writes: when the carrier
\* table's order-id or tracking column cannot be resolved, or the header
\* sentinel is not in the order file, the call fails before the workbook is
\* loaded and before a cell is modified, and returns no bytes, counts or
\* unmatched list.
C18_ValidatesBeforeWriting ==
    (/\ pc = "done"
     /\ op = "match"
     /\ \/ NoColumnFor(_CJ_ORDER_KEYWORDS)
        \/ NoColumnFor(_CJ_WAYBILL_KEYWORDS)
        \/ NoSentinelInGrid) =>
        /\ match_out.status = "ValueError"
        /\ "load_workbook" \notin Range(match_out.steps)
        /\ "write" \notin Range(match_out.steps)
        /\ "save" \notin Range(match_out.steps)
        /\ match_out.wb = <<>>
        /\ match_out.matched = 0
        /\ match_out.unmatched = 0
        /\ match_out.unmatched_list = <<>>

\* the call stopped in map_cj_columns on a file that has line items to write
C18_Witness ==
    /\ pc = "done"
    /\ op = "match"
    /\ NoColumnFor(_CJ_WAYBILL_KEYWORDS)
    /\ ~NoSentinelInGrid
    /\ \E r \in 2..Len(Grid) : WellFormedRow(Grid[r])
    /\ match_out.steps = <<"map_cj_columns">>
    /\ match_out.error.what = "column not found"
    /\ match_out.wb = <<>>

-----------------------------------------------------------------------------
(* build_cj_upload_df: the shape of the table returned *)

\* the shipment groups of the input: the identity triples of its rows that
\* have an order-id
ShipmentGroups == {IdentityTriple(OrderRows[i]) : i \in 1..Len(OrderRows)}

\* C19: for every order table that passes validation, also one in which no
\* row has an order-id, the table returned by build_cj_upload_df has exactly
\* the eight fixed columns (customer order-id, recipient name, phone, postal
\* code, address, product name, quantity, delivery message) in that order and
\* one row per shipment group.
C19_FixedColumns ==
    BuildDone =>
        /\ build_out.columns = UPLOAD_COLUMNS
        /\ Len(build_out.columns) = 8
        /\ Len(build_out.rows) = Cardinality(ShipmentGroups)

-----------------------------------------------------------------------------
(* data_cleaner.py: clean_phone on its own *)

\* longest phone string enumerated character by character
MaxPhoneLen == 3

\* characters of phone strings as typed: digits, a sign, separators, a
\* bracket, a letter, a digit outside ASCII
PhoneChars == {"0", "1", "8", "+", "-", " ", "(", "n", "SUP2"}

\* the phone strings of the cleaning test
DirtyPhones ==
    {<<"0", "1", "0", "-", "1", "2", "3", "4", "-", "5", "6", "7", "8">>,
     <<"(", "0", "1", "0", ")", " ", "1", "2", "3", "4", " ", "5", "6", "7", "8">>,
     <<"+", "8", "2", "-", "1", "0", "-", "1", "2", "3", "4", "-", "5", "6", "7", "8">>,
     <<"8", "2", " ", "1", "0", " ", "1", "2", "3", "4", " ", "5", "6", "7", "8">>,
     <<"0", "1", "0", ".", "1", "2", "3", "4", ".", "5", "6", "7", "8">>,
     <<"n", "a", "n">>,
     <<"0", "1", "0", " ", "1", "2", "3", "4", " ", " ", "5", "6", "7", "8">>}

Phones == SeqsUpTo(PhoneChars, MaxPhoneLen) \cup DirtyPhones

InitPhone ==
    /\ pc = "start"
    /\ op = "clean_phone"
    /\ arg \in Phones
    /\ smart_file = NoFile
    /\ cj_df = NoTable
    /\ df_smart = NoFrame
    /\ build_out = NoOut
    /\ match_out = NoOut
    /\ ret = NoOut

CleanPhone ==
    /\ pc = "start"
    /\ op = "clean_phone"
    /\ ret' = [status |-> "ok", value |-> clean_phone(arg)]
    /\ pc' = "done"
    /\ UNCHANGED <<op, smart_file, cj_df, df_smart, build_out, match_out, arg>>

NextPhone == CleanPhone

SpecPhone == InitPhone /\ [][NextPhone]_vars

PhoneDone == pc = "done" /\ op = "clean_phone"

\* the positions of the input that hold one of the characters 0-9
DigitPositions(s) == {i \in 1..Len(s) : s[i] \in AsciiDigitSet}

\* the k-th of a set of positions, counted from the left
KthPosition(S, k) == CHOOSE i \in S : Cardinality({j \in S : j <= i}) = k

CountryCodePhone ==
    <<"+", "8", "2", "-", "1", "0", "-", "1", "2", "3", "4", "-", "5", "6", "7", "8">>

-----------------------------------------------------------------------------
(* clean_phone: the notations of one mobile number *)

\* the notations of the number 010-1234-5678 in the cleaning test
MobileNotations ==
    {p \in DirtyPhones : p # <<"n", "a", "n">>}

DomesticDigits == <<"0", "1", "0", "1", "2", "3", "4", "5", "6", "7", "8">>

\* C21: clean_phone gives the one domestic digit string for every accepted
\* notation of the same mobile number: hyphenated, parenthesised, dotted,
\* double-spaced and country-code forms ("+82-10-1234-5678",
\* "82 10 1234 5678") all yield "01012345678"; "nan" and "" yield "".
C21_OneDomesticString ==
    PhoneDone =>
        /\ arg \in MobileNotations => ret.value = DomesticDigits
        /\ arg \in {<<"n", "a", "n">>, EMPTY} => ret.value = EMPTY

-----------------------------------------------------------------------------
(* data_cleaner.py: clean_text on its own *)

\* longest text enumerated character by character
MaxTextLen == 4

\* characters of names, addresses and notes as typed: a letter, punctuation,
\* a space, a line feed, an emoji, a no-break space, a variation selector
TextChars == {"a", ",", " ", "LF", "EMOJI", "NBSP", "VS16"}

Texts == SeqsUpTo(TextChars, MaxTextLen)

InitText ==
    /\ pc = "start"
    /\ op = "clean_text"
    /\ arg \in Texts
    /\ smart_file = NoFile
    /\ cj_df = NoTable
    /\ df_smart = NoFrame
    /\ build_out = NoOut
    /\ match_out = NoOut
    /\ ret = NoOut

CleanText ==
    /\ pc = "start"
    /\ op = "clean_text"
    /\ ret' = [status |-> "ok", value |-> clean_text(arg)]
    /\ pc' = "done"
    /\ UNCHANGED <<op, smart_file, cj_df, df_smart, build_out, match_out, arg>>

NextText == CleanText

SpecText == InitText /\ [][NextText]_vars

TextDone == pc = "done" /\ op = "clean_text"

\* the reference pipeline, one character at a time: `out` is what has been
\* produced so far; a removed character adds nothing, a control character
\* counts as a space, a space directly after a space is dropped
RECURSIVE ReferenceScan(_, _)
ReferenceScan(out, rest) ==
    IF rest = <<>> THEN out
    ELSE LET c == IF Head(rest) \in ControlChars THEN " " ELSE Head(rest)
         IN  IF Head(rest) \in EmojiChars THEN ReferenceScan(out, Tail(rest))
             ELSE IF c = " " /\ out # <<>> /\ out[Len(out)] = " "
                  THEN ReferenceScan(out, Tail(rest))
                  ELSE ReferenceScan(Append(out, c), Tail(rest))

\* trimming: drop the whitespace at both ends
RECURSIVE TrimLeft(_)
TrimLeft(s) ==
    IF s # <<>> /\ Head(s) \in Whitespace THEN TrimLeft(Tail(s)) ELSE s

RECURSIVE TrimRight(_)
TrimRight(s) ==
    IF s # <<>> /\ s[Len(s)] \in Whitespace
    THEN TrimRight(SubSeq(s, 1, Len(s) - 1)) ELSE s

ReferencePipeline(text) == TrimRight(TrimLeft(ReferenceScan(<<>>, text)))

\* the characters the pipeline neither removes nor treats as blank
IsKeptChar(c) == c \notin EmojiChars \cup ControlChars \cup Whitespace

\* C22: clean_text equals the reference pipeline: remove the characters of
\* the emoji, zero-width and variation-selector ranges, putting nothing in
\* their place; turn each ASCII control character into one space; collapse
\* runs of spaces to one; trim. Every other character is kept, in order: an
\* emoji between two letters leaves them adjacent, a tab or newline between
\* them leaves exactly one space.
C22_ReferencePipeline ==
    TextDone =>
        LET out == ret.value
        IN  /\ out = ReferencePipeline(arg)
            /\ \A i \in 1..Len(out) : out[i] \notin EmojiChars \cup ControlChars
            /\ \A i \in 1..(Len(out) - 1) : ~(out[i] = " " /\ out[i + 1] = " ")
            /\ out # <<>> =>
                   out[1] \notin Whitespace /\ out[Len(out)] \notin Whitespace
            /\ SelectSeq(out, IsKeptChar) = SelectSeq(arg, IsKeptChar)
            /\ arg = <<"a", "EMOJI", ",">> => out = <<"a", ",">>
            /\ arg = <<"a", "LF", ",">> => out = <<"a", " ", ",">>

\* an emoji between a space and a line feed: the blanks around it collapsed
\* to the one space left between the letters
C22_Witness ==
    /\ TextDone
    /\ arg = <<"a", " ", "EMOJI", "a">>
    /\ ret.value = <<"a", " ", "a">>

-----------------------------------------------------------------------------
(* Tab 1 then Tab 2 on the same order file: read_naver_excel and            *)
(* build_cj_upload_df, then match_and_fill_waybill                         *)

PipelineCjTables ==
    {[columns |-> CjColumns,
      rows |-> << << <<"K">>, OrderId(1), <<"6", "1">> >> >>]}

InitPipeline ==
    /\ pc = "start"
    /\ op = "pipeline"
    /\ smart_file \in SmartFiles
    /\ cj_df \in PipelineCjTables
    /\ df_smart = NoFrame
    /\ build_out = NoOut
    /\ match_out = NoOut
    /\ arg = EMPTY
    /\ ret = NoOut

\* df_smart = read_naver_excel(file); build_cj_upload_df(df_smart)
ReadAndBuild ==
    /\ pc = "start"
    /\ op = "pipeline"
    /\ df_smart' = read_naver_excel(smart_file)
    /\ build_out' = IF df_smart'.status = "ok"
                    THEN build_cj_upload_df(df_smart')
                    ELSE [status |-> df_smart'.status, error |-> df_smart'.error]
    /\ pc' = "built"
    /\ UNCHANGED <<op, smart_file, cj_df, match_out, arg, ret>>

\* match_and_fill_waybill on the file the upload table was built from
MatchSameFile ==
    /\ pc = "built"
    /\ op = "pipeline"
    /\ match_out' = match_and_fill_waybill(smart_file, cj_df)
    /\ pc' = "done"
    /\ UNCHANGED <<op, smart_file, cj_df, df_smart, build_out, arg, ret>>

NextPipeline == ReadAndBuild \/ MatchSameFile

SpecPipeline == InitPipeline /\ [][NextPipeline]_vars

PipelineDone ==
    /\ pc = "done"
    /\ op = "pipeline"
    /\ build_out.status = "ok"
    /\ match_out.status = "ok"

\* the order-ids of the rows of the g-th group of the upload table
GroupOrderIds(g) ==
    {TrimmedOrderNo(OrderRows[m]) : m \in GroupOf(g)}

\* C23: the groups match_and_fill_waybill re-derives from an order file are
\* the groups build_cj_upload_df produced from it: the representative given
\* to an order-id is the customer order-id of the upload row whose group
\* holds that order-id.
C23_SameGroups ==
    PipelineDone =>
        /\ DOMAIN match_out.rep_of = UNION {GroupOrderIds(g) : g \in Groups}
        /\ \A o \in DOMAIN match_out.rep_of :
               \A g \in Groups :
                   o \in GroupOrderIds(g) =>
                       match_out.rep_of[o] = build_out.rows[g].order_no

\* two rows of one recipient, typed differently, form one group in both
C23_Witness ==
    /\ PipelineDone
    /\ Len(build_out.rows) = 1
    /\ Cardinality(GroupOrderIds(1)) = 2
    /\ OrderRows[1][NAVER.name] # OrderRows[2][NAVER.name]
    /\ OrderRows[1][NAVER.phone] # OrderRows[2][NAVER.phone]
    /\ \E o \in GroupOrderIds(1) :
        match_out.rep_of[o] # o /\ match_out.rep_of[o] = build_out.rows[1].order_no

-----------------------------------------------------------------------------
(* File objects: a stream with a position over the bytes of a workbook     *)
(* (security_utils.py: unlock_excel; logistics_engine.py: the readers)     *)

\* where a stream may stand
Positions == {"start", "inside", "end"}

\* the bytes of a file: its worksheets and, for an encrypted file, its key
BytesOf(f) == [sheets |-> f.sheets, active |-> f.active, key |-> f.key]

\* bytes read from somewhere past the start: not the whole file
PartialBytes == [sheets |-> <<>>, active |-> 0, key |-> <<"?">>]

\* Seek0 that was left out
Seek0Missing(f) == f

\* file_obj.seek(0)
Seek0(f) == [f EXCEPT !.pos = "start"]

\* file_obj.read(), and what a reader handed the stream consumes: the bytes
\* from the position the stream stands at
StreamRead(f) == IF f.pos = "start" THEN BytesOf(f) ELSE PartialBytes

\* the stream after it was read
AfterRead(f) == [f EXCEPT !.pos = "end"]

\* pd.read_excel / load_workbook accept the bytes: whole and not encrypted
Readable(bytes) == bytes # PartialBytes /\ bytes.key = EMPTY

WorkbookOf(bytes) == [sheets |-> bytes.sheets, active |-> bytes.active]

\* the reader raised on the bytes it was given
BadFile == [status |-> "BadZipFile"]

\* find_header_row(file_obj): seek(0), read_excel
stream_find_header_row(f) ==
    LET bytes == StreamRead(Seek0(f))
        h     == find_header_row(WorkbookOf(bytes))
    IN  IF ~Readable(bytes) THEN BadFile
        ELSE IF h < 0 THEN [status |-> "ValueError", error |-> HeaderError]
        ELSE [status |-> "ok", value |-> h]

\* read_naver_excel(file_obj): find_header_row, then seek(0), read_excel
stream_read_naver_excel(f) ==
    LET first  == StreamRead(Seek0(f))
        second == StreamRead(Seek0(AfterRead(f)))
    IN  IF ~Readable(first) \/ ~Readable(second) THEN BadFile
        ELSE read_naver_excel(WorkbookOf(second))

\* match_and_fill_waybill(file_obj, cj_df): read_naver_excel,
\* find_header_row, then seek(0), load_workbook; the result is saved into a
\* buffer of its own
stream_match_and_fill_waybill(f, cj) ==
    LET frame  == stream_read_naver_excel(f)
        header == stream_find_header_row(AfterRead(f))
        loaded == StreamRead(Seek0(AfterRead(f)))
    IN  IF ~map_cj_columns(cj.columns).ok
        THEN match_and_fill_waybill(WorkbookOf(BytesOf(f)), cj)
        ELSE IF frame = BadFile \/ header = BadFile \/ ~Readable(loaded)
        THEN BadFile
        ELSE match_and_fill_waybill(WorkbookOf(loaded), cj)

\* unlock_excel(file_obj, password): seek(0), read(); without a password the
\* bytes in a buffer of their own, else what msoffcrypto decrypts with it
unlock_excel(f, password) ==
    LET raw == StreamRead(Seek0(f))
    IN  IF Strip(password) = EMPTY
        THEN [status |-> "ok", bytes |-> raw, pos |-> "start"]
        ELSE IF raw # PartialBytes /\ raw.key = Strip(password)
        THEN [status |-> "ok", bytes |-> [raw EXCEPT !.key = EMPTY],
              pos |-> "start"]
        ELSE [status |-> "Exception"]

-----------------------------------------------------------------------------
(* Any sequence of calls on one file object *)

FileKeys == {EMPTY, <<"p", "w">>}

Passwords == {EMPTY, <<" ">>, <<"p", "w">>, <<" ", "p", "w">>, <<"x">>}

\* the calls made on the file object: the function and its password
StreamCalls ==
    {<<fn, EMPTY>> : fn \in {"find_header_row", "read_naver_excel",
                             "match_and_fill_waybill"}}
    \cup {<<"unlock_excel", pw>> : pw \in Passwords}

\* order files with and without a header row, plain or encrypted, unread
StreamFiles ==
    {[sheets |-> <<ReadSheet(b, h, ch)>>, active |-> 1, key |-> k,
      pos |-> "start"] :
        b \in 0..MaxBanner, h \in {"none", "plain"},
        ch \in SeqsUpTo({"plain"}, MaxRows), k \in FileKeys}

\* what a call returns on the file object f
CallResult(call, f, cj) ==
    CASE call[1] = "find_header_row"        -> stream_find_header_row(f)
      [] call[1] = "read_naver_excel"       -> stream_read_naver_excel(f)
      [] call[1] = "match_and_fill_waybill" -> stream_match_and_fill_waybill(f, cj)
      [] OTHER                              -> unlock_excel(f, call[2])

\* `arg` keeps a fresh, unread copy of the file
InitStream ==
    /\ pc = "start"
    /\ op = "stream"
    /\ smart_file \in StreamFiles
    /\ arg = smart_file
    /\ cj_df \in PipelineCjTables
    /\ df_smart = NoFrame
    /\ build_out = NoOut
    /\ match_out = NoOut
    /\ ret = NoOut

\* one more call on the file object; the readers leave the stream wherever
\* they stopped
CallOnStream ==
    /\ op = "stream"
    /\ \E call \in StreamCalls, p \in Positions :
        /\ ret' = [call |-> call, pos_before |-> smart_file.pos,
                   value |-> CallResult(call, smart_file, cj_df)]
        /\ smart_file' = [smart_file EXCEPT !.pos = p]
    /\ pc' = "called"
    /\ UNCHANGED <<op, cj_df, df_smart, build_out, match_out, arg>>

NextStream == CallOnStream

SpecStream == InitStream /\ [][NextStream]_vars

\* C24: find_header_row, read_naver_excel, match_and_fill_waybill and
\* unlock_excel rewind the file object before every read and never alter its
\* contents: after any sequence of these calls, which leave the stream
\* anywhere, a call returns what it returns on a fresh, unread copy.
C24_CallsAreIndependent ==
    pc = "called" =>
        /\ BytesOf(smart_file) = BytesOf(arg)
        /\ ret.value = CallResult(ret.call, arg, cj_df)

\* match_and_fill_waybill on a stream left at its end by an earlier call
\* filled the file as on a fresh copy
C24_Witness ==
    /\ pc = "called"
    /\ ret.call[1] = "match_and_fill_waybill"
    /\ ret.pos_before = "end"
    /\ ret.value.status = "ok"
    /\ ret.value.matched = 1
    /\ arg.pos = "start"

-----------------------------------------------------------------------------
(* match_and_fill_waybill: the rows written against the rows read *)

\* the worksheet rows (1-based) whose cells differ after the call
RowsChanged ==
    {r \in 1..Len(SheetIn.rows) : SheetOut.rows[r] # SheetIn.rows[r]}

\* the worksheet rows (1-based) read_naver_excel returns: below the header,
\* order-id as read neither empty nor the sentinel
RowsRead ==
    {r \in 1..Len(SheetIn.rows) :
        /\ r > HeaderRowNo
        /\ KeepRow([c \in DOMAIN SheetIn.rows[r] |-> ReadCell(SheetIn.rows[r][c])])}

\* the header repeated below the header row
RepeatedHeaderRows ==
    {r \in 1..Len(SheetIn.rows) :
        r > HeaderRowNo /\ TrimmedOrderNo(SheetIn.rows[r]) = SENTINEL}

\* C25: the worksheet rows match_and_fill_waybill writes to and counts are
\* exactly the rows read_naver_excel returns for the file, so matched plus
\* unmatched is the number of rows read; a repeated header row below the
\* header is not overwritten with the unissued literal, not counted and not
\* listed as an unmatched order.
C25_WritesOnlyRowsRead ==
    (pc = "done" /\ op = "match" /\ match_out.status = "ok") =>
        /\ RowsChanged = RowsRead
        /\ match_out.matched + match_out.unmatched =
               Len(read_naver_excel(smart_file).rows)
        /\ \A r \in RepeatedHeaderRows : SheetOut.rows[r] = SheetIn.rows[r]
        /\ SENTINEL \notin Range(match_out.unmatched_list)

-----------------------------------------------------------------------------
(* map_cj_columns: the two roles *)

\* C26: for every carrier table on which map_cj_columns succeeds, the column
\* resolved for the order-id role and the column resolved for the tracking
\* role are two different columns: one column is never both the lookup key
\* and the tracking value.
C26_RolesAreDistinctColumns ==
    (MapCjColumnsDone /\ ret.status = "ok") =>
        /\ map_cj_columns(cj_df.columns).order #
               map_cj_columns(cj_df.columns).waybill
        /\ ret.order # ret.waybill

-----------------------------------------------------------------------------
(* match_and_fill_waybill: carrier records of the representative *)

\* the non-empty tracking numbers of the carrier records keyed to o
TrackingNumbersOf(o) ==
    {CjVal(i) : i \in {j \in 1..Len(cj_df.rows) : CjKey(j) = o}} \ {EMPTY}

\* C27: when the carrier table has at least one record keyed to a group's
\* representative with a non-empty tracking number, every order of the group
\* is matched with a tracking number of a record of the representative,
\* whatever the order of the carrier records and also when a record of that
\* order-id with an empty tracking number comes first.
C27_RepresentativeRecordMatches ==
    MatchDone =>
        \A o \in OrderIds :
            TrackingNumbersOf(Representative(o)) # {} =>
                /\ o \in DOMAIN match_out.order_to_waybill
                /\ match_out.order_to_waybill[o] \in
                       TrackingNumbersOf(Representative(o))

-----------------------------------------------------------------------------
(* match_and_fill_waybill run again on the file it produced *)

\* carrier tables of the repeated run: an issued record for each of the first
\* two orders and a record without tracking number
TwiceCjTables ==
    {[columns |-> CjColumns, rows |-> r] :
        r \in SeqsUpTo({<< <<"K">>, OrderId(1), <<"6", "1">> >>,
                        << <<"K">>, Padded(OrderId(2)), <<" ", "6", "2">> >>,
                        << <<"K">>, OrderId(1), EMPTY >>}, MaxCj)}

InitTwice ==
    /\ pc = "start"
    /\ op = "twice"
    /\ smart_file \in SmartFiles
    /\ cj_df \in TwiceCjTables
    /\ df_smart = NoFrame
    /\ build_out = NoOut
    /\ match_out = NoOut
    /\ arg = EMPTY
    /\ ret = NoOut

\* the first run, on the uploaded file
FirstRun ==
    /\ pc = "start"
    /\ op = "twice"
    /\ match_out' = match_and_fill_waybill(smart_file, cj_df)
    /\ pc' = "once"
    /\ UNCHANGED <<op, smart_file, cj_df, df_smart, build_out, arg, ret>>

\* the second run, on the bytes the first run returned
SecondRun ==
    /\ pc = "once"
    /\ op = "twice"
    /\ match_out.status = "ok"
    /\ ret' = match_and_fill_waybill(match_out.wb, cj_df)
    /\ pc' = "twice"
    /\ UNCHANGED <<op, smart_file, cj_df, df_smart, build_out, match_out, arg>>

NextTwice == FirstRun \/ SecondRun

SpecTwice == InitTwice /\ [][NextTwice]_vars

TwiceDone == pc = "twice" /\ op = "twice"

\* C28: running match_and_fill_waybill again on the file it produced, with
\* the same carrier table, succeeds and returns the same cell values, the
\* same matched and unmatched counts and the same unmatched list as the
\* first run.
C28_SecondRunSameResult ==
    TwiceDone =>
        /\ ret.status = "ok"
        /\ ret.wb = match_out.wb
        /\ ret.matched = match_out.matched
        /\ ret.unmatched = match_out.unmatched
        /\ ret.unmatched_list = match_out.unmatched_list

\* a second run after a first run that wrote a tracking number into one row
\* and the unissued literal into another
C28_Witness ==
    /\ TwiceDone
    /\ ret.status = "ok"
    /\ match_out.matched >= 1
    /\ match_out.unmatched >= 1
    /\ match_out.wb # smart_file
    /\ ret.matched + ret.unmatched = 2

-----------------------------------------------------------------------------
(* The address key: truncate_address(clean_text(x)) *)

\* addresses as typed: a run of letters that ends at or just before the
\* length limit (or no run at all), followed by up to MaxTextLen characters:
\* a letter, a space, a tab, an emoji
InitAddress ==
    /\ pc = "start"
    /\ op = "address"
    /\ \E n \in {0, ADDRESS_MAX_LEN - 2, ADDRESS_MAX_LEN - 1, ADDRESS_MAX_LEN} :
       \E tail \in SeqsUpTo({"B", " ", "TAB", "EMOJI"}, MaxTextLen) :
           arg = [i \in 1..n |-> "A"] \o tail
    /\ smart_file = NoFile
    /\ cj_df = NoTable
    /\ df_smart = NoFrame
    /\ build_out = NoOut
    /\ match_out = NoOut
    /\ ret = NoOut

\* the key expression of build_cj_upload_df and match_and_fill_waybill
NormalizeAddress ==
    /\ pc = "start"
    /\ op = "address"
    /\ ret' = [status |-> "ok",
               value  |-> truncate_address(clean_text(arg), ADDRESS_MAX_LEN)]
    /\ pc' = "done"
    /\ UNCHANGED <<op, smart_file, cj_df, df_smart, build_out, match_out, arg>>

NextAddress == NormalizeAddress

SpecAddress == InitAddress /\ [][NextAddress]_vars

AddressDone == pc = "done" /\ op = "address"

\* C29: the address key is idempotent: normalizing a normalized address
\* returns it unchanged, and a normalized address has no whitespace at
\* either end.
C29_AddressKeyIdempotent ==
    AddressDone =>
        /\ truncate_address(clean_text(ret.value), ADDRESS_MAX_LEN) = ret.value
        /\ ret.value # EMPTY =>
               /\ ret.value[1] \notin Whitespace
               /\ ret.value[Len(ret.value)] \notin Whitespace

-----------------------------------------------------------------------------
(* match_and_fill_waybill on a workbook with two worksheets *)

\* workbooks with two order worksheets, saved with either of them active
SheetFiles ==
    LET Sheets == {OrderSheet(b, ch) :
                       b \in 0..MaxBanner,
                       ch \in SeqsUpTo({<<"plain", 1>>, <<"blank", 1>>}, MaxRows)}
    IN  {[sheets |-> <<s1, s2>>, active |-> a] :
             s1 \in Sheets, s2 \in Sheets, a \in {1, 2}}

InitSheets ==
    /\ pc = "start"
    /\ op = "match"
    /\ smart_file \in SheetFiles
    /\ cj_df \in {[columns |-> CjColumns, rows |-> r] :
                     r \in SeqsUpTo({<< <<"K">>, OrderId(1), <<"6", "1">> >>},
                                    MaxCj)}
    /\ df_smart = NoFrame
    /\ build_out = NoOut
    /\ match_out = NoOut
    /\ arg = EMPTY
    /\ ret = NoOut

SpecSheets == InitSheets /\ [][NextMatch]_vars

\* the worksheets whose cells differ between the uploaded and the returned
\* workbook
SheetsChanged ==
    {s \in 1..Len(smart_file.sheets) :
        match_out.wb.sheets[s] # smart_file.sheets[s]}

\* C30: in a workbook with more than one worksheet the header row is located,
\* the groups are derived and the cells are written on one and the same
\* worksheet: the header index and the groups come from the first worksheet,
\* so no other worksheet is changed, and every order-id row of the first
\* worksheet below the header is counted.
C30_OneWorksheet ==
    (MatchDone /\ Len(smart_file.sheets) > 1) =>
        /\ SheetsChanged \subseteq {1}
        /\ match_out.matched + match_out.unmatched =
               Len(read_naver_excel(smart_file).rows)

=============================================================================
